---------------------------- MODULE Spec2Model ----------------------------
(***************************************************************************)
(* A model of opencolorio_config_aces/utilities/common.py.                 *)
(*                                                                         *)
(* A Python str is a finite sequence of characters; a character is a       *)
(* one-character TLA+ string.  A Python tuple or list is a sequence.  The  *)
(* elements of the sequences given to common_ancestor are strs, as in the  *)
(* docstring examples: iterating a str yields its one-character strs.      *)
(***************************************************************************)
EXTENDS Integers, Sequences, FiniteSets, TLC

VARIABLES
    ca_pc,        \* common_ancestor: "idle" between calls, "done" after one
    ca_args,      \* common_ancestor: the tuple *args of the last call
    ca_branch,    \* common_ancestor: the branch of the if the last call took
    ca_ancestor,  \* common_ancestor: the value the last call returned
    ca_seen,      \* common_ancestor: the branches taken so far
    pa_pc,        \* paths_common_ancestor: "idle" / "done"
    pa_args,      \* paths_common_ancestor: the tuple of paths of the last call
    pa_result,    \* paths_common_ancestor: the path the last call returned
    rq_pc,        \* required: where the decorated function's call stands
    rq_installed, \* required: the modules that can be imported
    rq_requirements, \* required: the tuple *requirements of the decorator
    rq_args,      \* required: the arguments of the call of wrapped
    rq_i,         \* required: position of the for loop in requirements
    rq_log,       \* required: the probe calls and function calls, in order
    rq_result,    \* required: the value wrapped returned
    rq_error,     \* required: the exception wrapped raised
    vv_pc,        \* vivification: "building", or "converted" after vivified_to_dict
    vv_node,      \* vivification: the node vivification() returned
    vv_dict,      \* vivification: the value vivified_to_dict(node) returned
    vv_raised,    \* vivification: whether the last statement raised TypeError
    vv_ops,       \* vivification: the number of statements run on the node
    vv_assigned,  \* vivification: the key paths assigned so far
    vv_read,      \* vivification: the key paths read so far
    vv_live,      \* vivification: the reads and assignments not overwritten since
    mb_pc,        \* message_box: the statement the call stands before
    mb_message,   \* message_box: the argument message
    mb_width,     \* message_box: the argument width
    mb_padding,   \* message_box: the argument padding
    mb_sink,      \* message_box: the strings given to print_callable, in order
    mb_queue,     \* message_box: the lines chain(*lines) has yet to yield
    mb_rows,      \* message_box: the number of text rows printed by the for loop
    mb_outcome,   \* message_box: "True" returned, "ValueError" raised, or "none"
    mr_pc,        \* multi_replace: "idle", "for" inside the loop, "done"
    mr_patterns,  \* multi_replace: the items of the dict patterns, as inserted
    mr_i,         \* multi_replace: position of the for loop in the items
    mr_name,      \* multi_replace: the variable name
    mr_trace      \* multi_replace: the values name has held, the argument first

caVars == <<ca_pc, ca_args, ca_branch, ca_ancestor, ca_seen>>
paVars == <<pa_pc, pa_args, pa_result>>
rqVars == <<rq_pc, rq_installed, rq_requirements, rq_args, rq_i, rq_log,
            rq_result, rq_error>>
vvVars == <<vv_pc, vv_node, vv_dict, vv_raised, vv_ops, vv_assigned, vv_read,
            vv_live>>
mbVars == <<mb_pc, mb_message, mb_width, mb_padding, mb_sink, mb_queue,
            mb_rows, mb_outcome>>
mrVars == <<mr_pc, mr_patterns, mr_i, mr_name, mr_trace>>
vars == <<caVars, paVars, rqVars, vvVars, mbVars, mrVars>>

-----------------------------------------------------------------------------
(* Bounds of the model.                                                    *)

\* Largest number of iterables given to common_ancestor.
MaxArgs == 3
\* Largest length of an iterable given to common_ancestor.
MaxLen == 2
\* Largest length, in characters, of a path given to paths_common_ancestor.
MaxPathLen == 4
\* Largest number of requirements given to the required decorator.
MaxRequirements == 2
\* Largest number of keys in one chained read or assignment on a node.
MaxDepth == 2
\* Largest number of statements run on a vivified node.
MaxOps == 3
\* Largest length, in characters, of a message given to message_box.
MaxMessageLen == 5
\* Largest width given to message_box.
MaxWidth == 7
\* Largest padding given to message_box.
MaxPadding == 1
\* Largest length, in characters, of a name given to multi_replace.
MaxNameLen == 3
\* Largest number of items in the patterns given to multi_replace.
MaxPatterns == 2

-----------------------------------------------------------------------------
(* Python built-ins used by the module.                                    *)

\* ord(c) for the characters of the model's alphabets.
Ord(c) ==
    CASE c = "\t" -> 9
      [] c = "\n" -> 10
      [] c = " " -> 32
      [] c = "." -> 46
      [] c = "/" -> 47
      [] c = "a" -> 97
      [] c = "b" -> 98
      [] c = "c" -> 99

Min2(m, n) == IF m <= n THEN m ELSE n

CharLess(c, d) == Ord(c) < Ord(d)

\* a < b for two strs: Python's lexicographic comparison, where a strict
\* prefix is the smaller one.
StrLess(a, b) ==
    \E k \in 0..Min2(Len(a), Len(b)) :
        /\ \A i \in 1..k : a[i] = b[i]
        /\ k < Len(b)
        /\ \/ k = Len(a)
           \/ /\ k < Len(a)
              /\ a[k + 1] # b[k + 1]
              /\ CharLess(a[k + 1], b[k + 1])

\* a < b for two sequences of strs, compared item by item in the same way.
SeqLess(a, b) ==
    \E k \in 0..Min2(Len(a), Len(b)) :
        /\ \A i \in 1..k : a[i] = b[i]
        /\ k < Len(b)
        /\ \/ k = Len(a)
           \/ /\ k < Len(a)
              /\ a[k + 1] # b[k + 1]
              /\ StrLess(a[k + 1], b[k + 1])

\* min(args): the first of the smallest items.
RECURSIVE MinFrom(_, _, _)
MinFrom(args, i, m) ==
    IF i > Len(args) THEN m
    ELSE MinFrom(args, i + 1, IF SeqLess(args[i], m) THEN args[i] ELSE m)

min(args) == MinFrom(args, 2, args[1])

\* zip(*args): one tuple per index, up to the length of the shortest item.
RECURSIVE ShortestLen(_, _)
ShortestLen(args, i) ==
    IF i > Len(args) THEN Len(args[1])
    ELSE Min2(Len(args[i]), ShortestLen(args, i + 1))

zip(args) ==
    [i \in 1..ShortestLen(args, 1) |-> [j \in 1..Len(args) |-> args[j][i]]]

\* set(t) for a tuple t.
set(t) == {t[j] : j \in 1..Len(t)}

\* ''.join(strs)
RECURSIVE Concat(_)
Concat(strs) ==
    IF Len(strs) = 0 THEN <<>> ELSE Head(strs) \o Concat(Tail(strs))

\* list.index(x): zero-based index of the first item equal to x.
index(list, x) ==
    CHOOSE i \in 0..(Len(list) - 1) :
        /\ list[i + 1] = x
        /\ \A j \in 0..(i - 1) : list[j + 1] # x

\* s[:k]
SliceTo(s, k) == SubSeq(s, 1, Min2(k, Len(s)))

-----------------------------------------------------------------------------
(* first_item and common_ancestor                                          *)

\* The value None.
None == <<"None">>

first_item(iterable, default) ==
    IF Len(iterable) = 0 THEN default ELSE iterable[1]

array_of(args) == [i \in DOMAIN zip(args) |-> set(zip(args)[i])]

divergence_of(args) ==
    SelectSeq(array_of(args), LAMBDA i : Cardinality(i) > 1)

\* common_ancestor with the first input returned where min(args) is.
common_ancestor_first_item(args) ==
    IF Len(divergence_of(args)) > 0
    THEN SliceTo(first_item(args, None),
                 index(array_of(args), first_item(divergence_of(args), None)))
    ELSE first_item(args, None)

common_ancestor(args) ==
    IF Len(divergence_of(args)) > 0
    THEN SliceTo(first_item(args, None),
                 index(array_of(args), first_item(divergence_of(args), None)))
    ELSE min(args)

\* The branch of common_ancestor's if statement taken for args.
branch_of(args) ==
    IF Len(divergence_of(args)) > 0 THEN "divergence" ELSE "fallback"

\* The sequences over S of length at most n.
RECURSIVE SeqsUpTo(_, _)
SeqsUpTo(S, n) ==
    IF n = 0 THEN {<<>>}
    ELSE LET shorter == SeqsUpTo(S, n - 1)
         IN  shorter \cup {Append(s, x) : s \in shorter, x \in S}

\* The non-empty tuples of at most n items of S.
TuplesUpTo(S, n) == SeqsUpTo(S, n) \ {<<>>}

\* The elements the iterables hold.
Elements == {<<"a">>, <<"b">>}

Iterables == SeqsUpTo(Elements, MaxLen)

CaIdle ==
    /\ ca_pc = "idle"
    /\ ca_args = <<>>
    /\ ca_branch = "none"
    /\ ca_ancestor = <<>>
    /\ ca_seen = {}

\* common_ancestor(*args) is called and returns.
CaCall ==
    /\ ca_pc = "idle"
    /\ \E args \in TuplesUpTo(Iterables, MaxArgs) :
        /\ ca_args' = args
        /\ ca_branch' = branch_of(args)
        /\ ca_ancestor' = common_ancestor(args)
        /\ ca_seen' = ca_seen \cup {branch_of(args)}
    /\ ca_pc' = "done"
    /\ UNCHANGED <<paVars, rqVars, vvVars, mbVars, mrVars>>

\* The caller drops the result; the next call may follow.
CaReturn ==
    /\ ca_pc = "done"
    /\ ca_pc' = "idle"
    /\ ca_args' = <<>>
    /\ ca_branch' = "none"
    /\ ca_ancestor' = <<>>
    /\ UNCHANGED <<ca_seen, paVars, rqVars, vvVars, mbVars, mrVars>>

-----------------------------------------------------------------------------
(* paths_common_ancestor                                                   *)

\* os.sep
sep == "/"

\* str.split(sep) for a one-character separator: the segments between the
\* separators, empty segments included; "" splits into [""].
RECURSIVE SplitFrom(_, _, _)
SplitFrom(path, i, segment) ==
    IF i > Len(path) THEN <<segment>>
    ELSE IF path[i] = sep
         THEN <<segment>> \o SplitFrom(path, i + 1, <<>>)
         ELSE SplitFrom(path, i + 1, Append(segment, path[i]))

split(path) == SplitFrom(path, 1, <<>>)

\* sep.join(segments)
RECURSIVE join(_)
join(segments) ==
    IF Len(segments) = 0 THEN <<>>
    ELSE IF Len(segments) = 1 THEN segments[1]
         ELSE segments[1] \o <<sep>> \o join(Tail(segments))

\* paths_common_ancestor that compares the paths character by character.
paths_common_ancestor_by_character(args) ==
    Concat(common_ancestor(
        [j \in 1..Len(args) |-> [i \in 1..Len(args[j]) |-> <<args[j][i]>>]]))

paths_common_ancestor(args) ==
    join(common_ancestor([j \in 1..Len(args) |-> split(args[j])]))

PathChars == {"/", "a", "."}

Paths == SeqsUpTo(PathChars, MaxPathLen)

PaIdle ==
    /\ pa_pc = "idle"
    /\ pa_args = <<>>
    /\ pa_result = <<>>

\* paths_common_ancestor(path1, path2) is called and returns.
PaCall ==
    /\ pa_pc = "idle"
    /\ \E p1 \in Paths, p2 \in Paths :
        /\ pa_args' = <<p1, p2>>
        /\ pa_result' = paths_common_ancestor(<<p1, p2>>)
    /\ pa_pc' = "done"
    /\ UNCHANGED <<caVars, rqVars, vvVars, mbVars, mrVars>>

PaReturn ==
    /\ pa_pc = "done"
    /\ pa_pc' = "idle"
    /\ pa_args' = <<>>
    /\ pa_result' = <<>>
    /\ UNCHANGED <<caVars, rqVars, vvVars, mbVars, mrVars>>

-----------------------------------------------------------------------------
(* The is_*_installed probes, REQUIREMENTS_TO_CALLABLE and required        *)

NoError == [type |-> "none", about |-> "none"]

\* The body shared by is_colour_installed, is_jsonpickle_installed and
\* is_networkx_installed: import the module; on ImportError raise when
\* raise_exception is set and return False otherwise.
is_installed(module, installed, raise_exception) ==
    IF module \in installed
    THEN [returned |-> "True", raised |-> NoError]
    ELSE IF raise_exception
         THEN [returned |-> "nothing",
               raised |-> [type |-> "ImportError", about |-> module]]
         ELSE [returned |-> "False", raised |-> NoError]

\* The mapping of requirement names to probes; a probe is named by the
\* module it imports.
REQUIREMENTS_TO_CALLABLE ==
    [Colour |-> "colour", jsonpickle |-> "jsonpickle", NetworkX |-> "networkx"]

Modules == {"colour", "jsonpickle", "networkx"}

\* The names a decorator may be given: the registered ones, the one the
\* mapping's docstring lists without registering it, and a registered name
\* in another case.
RequirementNames == {"Colour", "jsonpickle", "NetworkX", "OpenImageIO", "colour"}

\* The decorated function: its result depends on its argument.
function(a) == [result_of |-> a]

CallArgs == {1, 2}

ProbeEvent(name, raise_exception) ==
    [kind |-> "probe", name |-> name, raise_exception |-> raise_exception,
     args |-> 0]

CallEvent(a) ==
    [kind |-> "call", name |-> "function", raise_exception |-> FALSE,
     args |-> a]

RqIdle ==
    /\ rq_pc = "undecorated"
    /\ rq_requirements = <<>>
    /\ rq_args = 0
    /\ rq_i = 0
    /\ rq_log = <<>>
    /\ rq_result = "nothing"
    /\ rq_error = NoError

\* The requirements taken last first.
requirement_at_reversed(requirements, i) == requirements[Len(requirements) + 1 - i]

\* for requirement in requirements: the requirement of turn i of the loop.
requirement_at(requirements, i) == requirements[i]

\* @required(*requirements) decorates the function.
RqDecorate ==
    /\ rq_pc = "undecorated"
    /\ \E requirements \in SeqsUpTo(RequirementNames, MaxRequirements) :
        rq_requirements' = requirements
    /\ rq_pc' = "decorated"
    /\ UNCHANGED <<rq_installed, rq_args, rq_i, rq_log, rq_result, rq_error>>
    /\ UNCHANGED <<caVars, paVars, vvVars, mbVars, mrVars>>

\* wrapped(*args) is called: the for loop starts.
RqCall ==
    /\ rq_pc = "decorated"
    /\ \E a \in CallArgs : rq_args' = a
    /\ rq_i' = 1
    /\ rq_pc' = "for"
    /\ UNCHANGED <<rq_installed, rq_requirements, rq_log, rq_result, rq_error>>
    /\ UNCHANGED <<caVars, paVars, vvVars, mbVars, mrVars>>

\* The lookup with a name that is not registered passed over in silence.
RqLookup_skip ==
    /\ rq_pc = "for"
    /\ rq_i <= Len(rq_requirements)
    /\ IF requirement_at(rq_requirements, rq_i) \in DOMAIN REQUIREMENTS_TO_CALLABLE
       THEN /\ rq_pc' = "probe"
            /\ UNCHANGED rq_i
       ELSE /\ rq_pc' = "for"
            /\ rq_i' = rq_i + 1
    /\ UNCHANGED <<rq_installed, rq_requirements, rq_args, rq_log, rq_result,
                   rq_error>>
    /\ UNCHANGED <<caVars, paVars, vvVars, mbVars, mrVars>>

\* REQUIREMENTS_TO_CALLABLE[requirement]: a dict lookup, KeyError when the
\* key is absent.
RqLookup ==
    /\ rq_pc = "for"
    /\ rq_i <= Len(rq_requirements)
    /\ IF requirement_at(rq_requirements, rq_i) \in DOMAIN REQUIREMENTS_TO_CALLABLE
       THEN /\ rq_pc' = "probe"
            /\ UNCHANGED rq_error
       ELSE /\ rq_pc' = "raised"
            /\ rq_error' = [type |-> "KeyError",
                            about |-> requirement_at(rq_requirements, rq_i)]
    /\ UNCHANGED <<rq_installed, rq_requirements, rq_args, rq_i, rq_log,
                   rq_result>>
    /\ UNCHANGED <<caVars, paVars, vvVars, mbVars, mrVars>>

\* The probe called with raise_exception left at its default, False.
RqProbe_no_raise ==
    /\ rq_pc = "probe"
    /\ LET name == requirement_at(rq_requirements, rq_i)
           outcome == is_installed(REQUIREMENTS_TO_CALLABLE[name],
                                   rq_installed, FALSE)
       IN  /\ rq_log' = Append(rq_log, ProbeEvent(name, FALSE))
           /\ IF outcome.raised = NoError
              THEN /\ rq_i' = rq_i + 1
                   /\ rq_pc' = "for"
                   /\ UNCHANGED rq_error
              ELSE /\ rq_pc' = "raised"
                   /\ rq_error' = outcome.raised
                   /\ UNCHANGED rq_i
    /\ UNCHANGED <<rq_installed, rq_requirements, rq_args, rq_result>>
    /\ UNCHANGED <<caVars, paVars, vvVars, mbVars, mrVars>>

\* The looked-up probe is called with raise_exception=True; its exception
\* leaves wrapped, its return value is dropped.
RqProbe ==
    /\ rq_pc = "probe"
    /\ LET name == requirement_at(rq_requirements, rq_i)
           outcome == is_installed(REQUIREMENTS_TO_CALLABLE[name],
                                   rq_installed, TRUE)
       IN  /\ rq_log' = Append(rq_log, ProbeEvent(name, TRUE))
           /\ IF outcome.raised = NoError
              THEN /\ rq_i' = rq_i + 1
                   /\ rq_pc' = "for"
                   /\ UNCHANGED rq_error
              ELSE /\ rq_pc' = "raised"
                   /\ rq_error' = outcome.raised
                   /\ UNCHANGED rq_i
    /\ UNCHANGED <<rq_installed, rq_requirements, rq_args, rq_result>>
    /\ UNCHANGED <<caVars, paVars, vvVars, mbVars, mrVars>>

\* The loop is over: return function(*args, **kwargs).
RqInvoke ==
    /\ rq_pc = "for"
    /\ rq_i > Len(rq_requirements)
    /\ rq_log' = Append(rq_log, CallEvent(rq_args))
    /\ rq_result' = function(rq_args)
    /\ rq_pc' = "returned"
    /\ UNCHANGED <<rq_installed, rq_requirements, rq_args, rq_i, rq_error>>
    /\ UNCHANGED <<caVars, paVars, vvVars, mbVars, mrVars>>

-----------------------------------------------------------------------------
(* vivification and vivified_to_dict                                       *)

\* Python values: a defaultdict whose default_factory is vivification, a
\* plain dict, an int.  items maps the keys that are present to values.
DefaultDict(items) == [kind |-> "defaultdict", items |-> items, value |-> 0]

Dict(items) == [kind |-> "dict", items |-> items, value |-> 0]

IntValue(v) == [kind |-> "int", items |-> <<>>, value |-> v]

\* d with d[key] = x
WithItem(items, key, x) ==
    [k \in (DOMAIN items) \cup {key} |-> IF k = key THEN x ELSE items[k]]

vivification == DefaultDict(<<>>)

\* defaultdict.__getitem__: the item at key; an absent key is first set to
\* default_factory(), here vivification().
getitem(node, key) ==
    IF key \in DOMAIN node.items THEN node.items[key] ELSE vivification

\* The statement  node[k1]...[kn] = v.  The items before the last are read
\* with __getitem__, the last is set with __setitem__; subscripting an int
\* raises TypeError.  Yields the node afterwards and whether it raised.
RECURSIVE Assign(_, _, _)
Assign(node, path, v) ==
    IF node.kind # "defaultdict" THEN [node |-> node, raised |-> TRUE]
    ELSE IF Len(path) = 1
         THEN [node |-> DefaultDict(WithItem(node.items, path[1], IntValue(v))),
               raised |-> FALSE]
         ELSE LET below == Assign(getitem(node, path[1]), Tail(path), v)
              IN  [node |-> DefaultDict(WithItem(node.items, path[1], below.node)),
                   raised |-> below.raised]

\* The expression  node[k1]...[kn]  evaluated for its value.
RECURSIVE Read(_, _)
Read(node, path) ==
    IF Len(path) = 0 THEN [node |-> node, raised |-> FALSE]
    ELSE IF node.kind # "defaultdict" THEN [node |-> node, raised |-> TRUE]
         ELSE LET below == Read(getitem(node, path[1]), Tail(path))
              IN  [node |-> DefaultDict(WithItem(node.items, path[1], below.node)),
                   raised |-> below.raised]

\* vivified_to_dict that converts the node and leaves its values as they are.
vivified_to_dict_shallow(vivified) ==
    IF vivified.kind = "defaultdict" THEN Dict(vivified.items) ELSE vivified

RECURSIVE vivified_to_dict(_)
vivified_to_dict(vivified) ==
    IF vivified.kind = "defaultdict"
    THEN Dict([key \in DOMAIN vivified.items |->
                  vivified_to_dict(vivified.items[key])])
    ELSE vivified

Keys == {"my", "attribute"}

Values == {1, 2}

KeyPathsUpTo(n) == SeqsUpTo(Keys, n) \ {<<>>}

\* The reads and assignments left standing by an assignment to path: those
\* not at or below it.
Outside(live, path) ==
    {e \in live : ~(Len(path) <= Len(e.path) /\ SubSeq(e.path, 1, Len(path)) = path)}

VvIdle ==
    /\ vv_pc = "building"
    /\ vv_node = vivification
    /\ vv_dict = IntValue(0)
    /\ vv_raised = FALSE
    /\ vv_ops = 0
    /\ vv_assigned = {}
    /\ vv_read = {}
    /\ vv_live = {}

\* node[k1]...[kn] = v
VvAssign ==
    /\ vv_ops < MaxOps
    /\ \E path \in KeyPathsUpTo(MaxDepth), v \in Values :
        LET done == Assign(vv_node, path, v)
        IN  /\ vv_node' = done.node
            /\ vv_raised' = done.raised
            /\ vv_assigned' = IF done.raised THEN vv_assigned
                              ELSE vv_assigned \cup {path}
            /\ vv_live' = IF done.raised THEN vv_live
                          ELSE Outside(vv_live, path)
                               \cup {[op |-> "assign", path |-> path, value |-> v]}
    /\ vv_ops' = vv_ops + 1
    /\ vv_pc' = "building"
    /\ UNCHANGED <<vv_dict, vv_read>>
    /\ UNCHANGED <<caVars, paVars, rqVars, mbVars, mrVars>>

\* node[k1]...[kn] read as an expression
VvRead ==
    /\ vv_ops < MaxOps
    /\ \E path \in KeyPathsUpTo(MaxDepth) :
        LET done == Read(vv_node, path)
        IN  /\ vv_node' = done.node
            /\ vv_raised' = done.raised
            /\ vv_read' = IF done.raised THEN vv_read ELSE vv_read \cup {path}
            /\ vv_live' = IF done.raised THEN vv_live
                          ELSE vv_live
                               \cup {[op |-> "read", path |-> path, value |-> 0]}
    /\ vv_ops' = vv_ops + 1
    /\ vv_pc' = "building"
    /\ UNCHANGED <<vv_dict, vv_assigned>>
    /\ UNCHANGED <<caVars, paVars, rqVars, mbVars, mrVars>>

\* vivified_to_dict(node)
VvConvert ==
    /\ vv_pc = "building"
    /\ vv_dict' = vivified_to_dict(vv_node)
    /\ vv_pc' = "converted"
    /\ UNCHANGED <<vv_node, vv_raised, vv_ops, vv_assigned, vv_read, vv_live>>
    /\ UNCHANGED <<caVars, paVars, rqVars, mbVars, mrVars>>

-----------------------------------------------------------------------------
(* message_box, with the TextWrapper it configures                         *)

\* The tab size of str.expandtabs() and of TextWrapper.
TabSize == 8

\* c * n for a character c
Repeat(c, n) == [i \in 1..n |-> c]

\* str.expandtabs(): a tab becomes the spaces up to the next tab stop;
\* the column starts again after a newline.
RECURSIVE ExpandFrom(_, _, _)
ExpandFrom(text, i, column) ==
    IF i > Len(text) THEN <<>>
    ELSE IF text[i] = "\t"
         THEN Repeat(" ", TabSize - (column % TabSize))
              \o ExpandFrom(text, i + 1, 0)
         ELSE <<text[i]>>
              \o ExpandFrom(text, i + 1, IF text[i] = "\n" THEN 0 ELSE column + 1)

expandtabs(text) == ExpandFrom(text, 1, 0)

\* The whitespace characters of the model's alphabet.
Whitespace == {" ", "\t", "\n"}

\* chunk.strip() == ''
IsBlank(chunk) == \A i \in 1..Len(chunk) : chunk[i] \in Whitespace

\* message.split("\n"): the segments between newlines, empty ones included.
RECURSIVE SplitLinesFrom(_, _, _)
SplitLinesFrom(message, i, segment) ==
    IF i > Len(message) THEN <<segment>>
    ELSE IF message[i] = "\n"
         THEN <<segment>> \o SplitLinesFrom(message, i + 1, <<>>)
         ELSE SplitLinesFrom(message, i + 1, Append(segment, message[i]))

split_lines(message) == SplitLinesFrom(message, 1, <<>>)

\* TextWrapper._split on a text without hyphens: the maximal runs of
\* whitespace and of other characters, in order.
RECURSIVE SplitChunksFrom(_, _, _)
SplitChunksFrom(text, i, chunk) ==
    IF i > Len(text) THEN (IF chunk = <<>> THEN <<>> ELSE <<chunk>>)
    ELSE IF chunk = <<>> \/ ((text[i] \in Whitespace) = (chunk[1] \in Whitespace))
         THEN SplitChunksFrom(text, i + 1, Append(chunk, text[i]))
         ELSE <<chunk>> \o SplitChunksFrom(text, i + 1, <<text[i]>>)

\* TextWrapper._split_chunks: tabs are expanded (expand_tabs is left at its
\* default), other whitespace is kept (replace_whitespace=False).
split_chunks(text) == SplitChunksFrom(expandtabs(text), 1, <<>>)

\* The number of leading chunks that fit a line of the given width.
RECURSIVE Fit(_, _, _)
Fit(chunks, k, room) ==
    IF k < Len(chunks) /\ Len(chunks[k + 1]) <= room
    THEN Fit(chunks, k + 1, room - Len(chunks[k + 1]))
    ELSE k

\* _wrap_chunks with break_long_words left at its default, True: a chunk
\* wider than a line is cut at the width.
RECURSIVE wrap_chunks_breaking(_, _, _)
wrap_chunks_breaking(chunks, width, lines) ==
    IF Len(chunks) = 0 THEN lines
    ELSE LET started == IF IsBlank(chunks[1]) /\ Len(lines) > 0
                        THEN Tail(chunks) ELSE chunks
             k == Fit(started, 0, width)
             fitted == SubSeq(started, 1, k)
             left == SubSeq(started, k + 1, Len(started))
             long == Len(left) > 0 /\ Len(left[1]) > width /\ k = 0
             cur_line == IF long THEN <<SubSeq(left[1], 1, width)>> ELSE fitted
             rest == IF long
                     THEN <<SubSeq(left[1], width + 1, Len(left[1]))>> \o Tail(left)
                     ELSE left
             kept == IF Len(cur_line) > 0 /\ IsBlank(cur_line[Len(cur_line)])
                     THEN SubSeq(cur_line, 1, Len(cur_line) - 1)
                     ELSE cur_line
         IN  wrap_chunks_breaking(rest, width,
                                  IF Len(kept) > 0 THEN Append(lines, Concat(kept))
                                  ELSE lines)

\* TextWrapper._wrap_chunks with break_long_words=False and drop_whitespace
\* at its default: each turn of the outer loop builds one line.
RECURSIVE wrap_chunks(_, _, _)
wrap_chunks(chunks, width, lines) ==
    IF Len(chunks) = 0 THEN lines
    ELSE LET \* a whitespace chunk that would start a line after the first
             started == IF IsBlank(chunks[1]) /\ Len(lines) > 0
                        THEN Tail(chunks) ELSE chunks
             k == Fit(started, 0, width)
             fitted == SubSeq(started, 1, k)
             left == SubSeq(started, k + 1, Len(started))
             \* _handle_long_word: a chunk wider than any line is not
             \* broken; it is taken whole when the line is empty
             long == Len(left) > 0 /\ Len(left[1]) > width /\ k = 0
             cur_line == IF long THEN <<left[1]>> ELSE fitted
             rest == IF long THEN Tail(left) ELSE left
             \* a whitespace chunk that would end the line
             kept == IF Len(cur_line) > 0 /\ IsBlank(cur_line[Len(cur_line)])
                     THEN SubSeq(cur_line, 1, Len(cur_line) - 1)
                     ELSE cur_line
         IN  wrap_chunks(rest, width,
                         IF Len(kept) > 0 THEN Append(lines, Concat(kept))
                         ELSE lines)

\* TextWrapper(width=ideal_width, break_long_words=False,
\* replace_whitespace=False).wrap(text), for a width above 0.
wrap(text, ideal_width) == wrap_chunks(split_chunks(text), ideal_width, <<>>)

\* ideal_width = width - padding * 2 - 2
ideal_width_of(width, padding) == width - padding * 2 - 2

\* inner(text): " " * n is empty for a negative n.
inner(text, width, padding) ==
    LET fill == width - Len(text) - padding * 2 - 2
    IN  <<"*">> \o Repeat(" ", padding) \o text
        \o Repeat(" ", IF fill > 0 THEN fill ELSE 0)
        \o Repeat(" ", padding) \o <<"*">>

\* "=" * width
border(width) == Repeat("=", width)

\* The lines without the " " put in place of an empty list.
lines_of_no_placeholder(message, ideal_width) ==
    LET segments == split_lines(message)
    IN  [i \in 1..Len(segments) |->
            [type |-> "list", value |-> wrap(segments[i], ideal_width)]]

\* lines = [wrapper.wrap(line) for line in message.split("\n")]
\* lines = [" " if len(line) == 0 else line for line in lines]
\* A list of strs is tagged "list"; the str " " put in place of an empty
\* list is tagged "str".
lines_of(message, ideal_width) ==
    LET segments == split_lines(message)
    IN  [i \in 1..Len(segments) |->
            LET line == wrap(segments[i], ideal_width)
            IN  IF Len(line) = 0
                THEN [type |-> "str", value |-> <<" ">>]
                ELSE [type |-> "list", value |-> line]]

\* What iterating an item yields: the strs of a list, the one-character
\* strs of a str.
iterate(item) ==
    IF item.type = "str"
    THEN [i \in 1..Len(item.value) |-> <<item.value[i]>>]
    ELSE item.value

\* chain over the lines taken last first.
RECURSIVE chain_reversed(_)
chain_reversed(lines) ==
    IF Len(lines) = 0 THEN <<>>
    ELSE chain_reversed(Tail(lines)) \o iterate(Head(lines))

\* chain(*lines)
RECURSIVE chain(_)
chain(lines) ==
    IF Len(lines) = 0 THEN <<>>
    ELSE iterate(Head(lines)) \o chain(Tail(lines))

MessageChars == {"a", "b", " ", "\t", "\n"}

Messages == SeqsUpTo(MessageChars, MaxMessageLen)

MbIdle ==
    /\ mb_pc = "idle"
    /\ mb_message = <<>>
    /\ mb_width = 0
    /\ mb_padding = 0
    /\ mb_sink = <<>>
    /\ mb_queue = <<>>
    /\ mb_rows = 0
    /\ mb_outcome = "none"

\* message_box(message, width, padding, print_callable) is called.
MbCall ==
    /\ mb_pc = "idle"
    /\ \E message \in Messages, width \in 1..MaxWidth, padding \in 0..MaxPadding :
        /\ mb_message' = message
        /\ mb_width' = width
        /\ mb_padding' = padding
    /\ mb_pc' = "header"
    /\ UNCHANGED <<mb_sink, mb_queue, mb_rows, mb_outcome>>
    /\ UNCHANGED <<caVars, paVars, rqVars, vvVars, mrVars>>

\* print_callable("=" * width); print_callable(inner(""))
MbHeader ==
    /\ mb_pc = "header"
    /\ mb_sink' = mb_sink \o <<border(mb_width), inner(<<>>, mb_width, mb_padding)>>
    /\ mb_pc' = "wrap"
    /\ UNCHANGED <<mb_message, mb_width, mb_padding, mb_queue, mb_rows, mb_outcome>>
    /\ UNCHANGED <<caVars, paVars, rqVars, vvVars, mrVars>>

\* The wrapper is built and the lines are wrapped; TextWrapper raises
\* ValueError for a width that is not above 0.
MbWrap ==
    /\ mb_pc = "wrap"
    /\ IF ideal_width_of(mb_width, mb_padding) <= 0
       THEN /\ mb_outcome' = "ValueError"
            /\ mb_pc' = "done"
            /\ UNCHANGED mb_queue
       ELSE /\ mb_queue' = chain(lines_of(mb_message,
                                          ideal_width_of(mb_width, mb_padding)))
            /\ mb_pc' = "for"
            /\ UNCHANGED mb_outcome
    /\ UNCHANGED <<mb_message, mb_width, mb_padding, mb_sink, mb_rows>>
    /\ UNCHANGED <<caVars, paVars, rqVars, vvVars, mrVars>>

\* One turn of the for loop: print_callable(inner(line.expandtabs()))
MbLine ==
    /\ mb_pc = "for"
    /\ Len(mb_queue) > 0
    /\ mb_sink' = Append(mb_sink,
                         inner(expandtabs(Head(mb_queue)), mb_width, mb_padding))
    /\ mb_queue' = Tail(mb_queue)
    /\ mb_rows' = mb_rows + 1
    /\ UNCHANGED <<mb_pc, mb_message, mb_width, mb_padding, mb_outcome>>
    /\ UNCHANGED <<caVars, paVars, rqVars, vvVars, mrVars>>

\* print_callable(inner("")); print_callable("=" * width); return True
MbFooter ==
    /\ mb_pc = "for"
    /\ Len(mb_queue) = 0
    /\ mb_sink' = mb_sink \o <<inner(<<>>, mb_width, mb_padding), border(mb_width)>>
    /\ mb_outcome' = "True"
    /\ mb_pc' = "done"
    /\ UNCHANGED <<mb_message, mb_width, mb_padding, mb_queue, mb_rows>>
    /\ UNCHANGED <<caVars, paVars, rqVars, vvVars, mrVars>>

-----------------------------------------------------------------------------
(* multi_replace, with re.sub on a fragment of the pattern language        *)

\* A pattern is a sequence of atoms: a character that matches itself, or
\* "\\w+", one or more word characters, as many as the rest of the pattern
\* allows.
WordChars == {"a", "b"}

OneOrMoreWord == "\\w+"

\* The number of word characters of text from position i on.
RECURSIVE WordRun(_, _)
WordRun(text, i) ==
    IF i <= Len(text) /\ text[i] \in WordChars THEN 1 + WordRun(text, i + 1) ELSE 0

\* re.match at position i, atoms k.. of the pattern: the position after the
\* match, or -1.  A greedy repeat gives back characters until the rest of
\* the pattern matches.
RECURSIVE MatchEnd(_, _, _, _)
MatchEnd(pattern, k, text, i) ==
    IF k > Len(pattern) THEN i
    ELSE IF pattern[k] = OneOrMoreWord
         THEN LET ends == {n \in 1..WordRun(text, i) :
                              MatchEnd(pattern, k + 1, text, i + n) # -1}
              IN  IF ends = {} THEN -1
                  ELSE MatchEnd(pattern, k + 1, text,
                                i + (CHOOSE n \in ends : \A m \in ends : m <= n))
         ELSE IF i <= Len(text) /\ text[i] = pattern[k]
              THEN MatchEnd(pattern, k + 1, text, i + 1)
              ELSE -1

\* re.sub(pattern, substitution, text): the leftmost matches that do not
\* overlap, from left to right, are replaced; an empty match is replaced
\* too and the character after it is kept.
RECURSIVE SubFrom(_, _, _, _)
SubFrom(pattern, substitution, text, i) ==
    LET end == MatchEnd(pattern, 1, text, i)
    IN  IF i > Len(text) THEN (IF end = i THEN substitution ELSE <<>>)
        ELSE IF end = -1
             THEN <<text[i]>> \o SubFrom(pattern, substitution, text, i + 1)
             ELSE IF end = i
                  THEN substitution \o <<text[i]>>
                       \o SubFrom(pattern, substitution, text, i + 1)
                  ELSE substitution \o SubFrom(pattern, substitution, text, end)

re_sub(pattern, substitution, text) == SubFrom(pattern, substitution, text, 1)

\* The pairs of the dict taken last first.
items_reversed(patterns) == [i \in 1..Len(patterns) |-> patterns[Len(patterns) + 1 - i]]

\* patterns.items(): the pairs of the dict in insertion order.
items(patterns) == patterns

NameChars == {"a", "b", " "}

Names == SeqsUpTo(NameChars, MaxNameLen)

PatternKeys ==
    {<<>>, <<"a">>, <<"b">>, <<"a", "b">>, <<OneOrMoreWord>>, <<OneOrMoreWord, "b">>}

Substitutions == {<<>>, <<"b">>, <<"a", "b">>}

\* The dicts of at most MaxPatterns items, as the sequence of their items
\* in insertion order: no key twice.
PatternDicts ==
    {d \in SeqsUpTo([pattern : PatternKeys, substitution : Substitutions],
                    MaxPatterns) :
        \A j, k \in 1..Len(d) : j # k => d[j].pattern # d[k].pattern}

MrIdle ==
    /\ mr_pc = "idle"
    /\ mr_patterns = <<>>
    /\ mr_i = 0
    /\ mr_name = <<>>
    /\ mr_trace = <<>>

\* multi_replace(name, patterns) is called.
MrCall ==
    /\ mr_pc = "idle"
    /\ \E name \in Names, patterns \in PatternDicts :
        /\ mr_name' = name
        /\ mr_patterns' = patterns
        /\ mr_trace' = <<name>>
    /\ mr_i' = 1
    /\ mr_pc' = "for"
    /\ UNCHANGED <<caVars, paVars, rqVars, vvVars, mbVars>>

\* One turn of the loop: name = re.sub(pattern, substitution, name)
MrSub ==
    /\ mr_pc = "for"
    /\ mr_i <= Len(items(mr_patterns))
    /\ LET item == items(mr_patterns)[mr_i]
       IN  /\ mr_name' = re_sub(item.pattern, item.substitution, mr_name)
           /\ mr_trace' = Append(mr_trace,
                                 re_sub(item.pattern, item.substitution, mr_name))
    /\ mr_i' = mr_i + 1
    /\ UNCHANGED <<mr_pc, mr_patterns>>
    /\ UNCHANGED <<caVars, paVars, rqVars, vvVars, mbVars>>

\* return name
MrReturn ==
    /\ mr_pc = "for"
    /\ mr_i > Len(items(mr_patterns))
    /\ mr_pc' = "done"
    /\ UNCHANGED <<mr_patterns, mr_i, mr_name, mr_trace>>
    /\ UNCHANGED <<caVars, paVars, rqVars, vvVars, mbVars>>

-----------------------------------------------------------------------------
(* Specifications, one per utility.                                        *)

\* Nothing of required is in use.
RqUnused == RqIdle /\ rq_installed = {}

InitAncestor == CaIdle /\ PaIdle /\ RqUnused /\ VvIdle /\ MbIdle /\ MrIdle
NextAncestor == CaCall \/ CaReturn
SpecAncestor == InitAncestor /\ [][NextAncestor]_vars

InitPaths == CaIdle /\ PaIdle /\ RqUnused /\ VvIdle /\ MbIdle /\ MrIdle
NextPaths == PaCall \/ PaReturn
SpecPaths == InitPaths /\ [][NextPaths]_vars

InitRequired ==
    /\ CaIdle /\ PaIdle /\ VvIdle /\ MbIdle /\ MrIdle
    /\ RqIdle /\ rq_installed \in SUBSET Modules
NextRequired == RqDecorate \/ RqCall \/ RqLookup \/ RqProbe \/ RqInvoke
SpecRequired == InitRequired /\ [][NextRequired]_vars

InitVivification == CaIdle /\ PaIdle /\ RqUnused /\ VvIdle /\ MbIdle /\ MrIdle
NextVivification == VvAssign \/ VvRead \/ VvConvert
SpecVivification == InitVivification /\ [][NextVivification]_vars

InitBox == CaIdle /\ PaIdle /\ RqUnused /\ VvIdle /\ MbIdle /\ MrIdle
NextBox == MbCall \/ MbHeader \/ MbWrap \/ MbLine \/ MbFooter
SpecBox == InitBox /\ [][NextBox]_vars

InitReplace == CaIdle /\ PaIdle /\ RqUnused /\ VvIdle /\ MbIdle /\ MrIdle
NextReplace == MrCall \/ MrSub \/ MrReturn
SpecReplace == InitReplace /\ [][NextReplace]_vars

-----------------------------------------------------------------------------
(* Claims about common_ancestor and paths_common_ancestor.                 *)

IsPrefix(p, s) == Len(p) <= Len(s) /\ SubSeq(s, 1, Len(p)) = p

\* C1: common_ancestor returns the longest leading sub-sequence shared by
\* all inputs: the result is a prefix of every input, and either it is as
\* long as the shortest input or two inputs disagree at the index equal to
\* its length.  This holds on the divergence branch and on the fallback.
C1_LongestCommonPrefix ==
    ca_pc = "done" =>
        LET n == Len(ca_ancestor)
        IN  /\ ca_branch \in {"divergence", "fallback"}
            /\ \A j \in 1..Len(ca_args) : IsPrefix(ca_ancestor, ca_args[j])
            /\ \/ \E j \in 1..Len(ca_args) : Len(ca_args[j]) = n
               \/ \E j, k \in 1..Len(ca_args) :
                      ca_args[j][n + 1] # ca_args[k][n + 1]

\* Both branches have been taken, and the last call went through the
\* fallback with a first input that is strictly longer than the result.
C1_Witness ==
    /\ ca_pc = "done"
    /\ ca_seen = {"divergence", "fallback"}
    /\ ca_branch = "fallback"
    /\ Len(ca_args) >= 2
    /\ Len(ca_ancestor) >= 1
    /\ Len(ca_args[1]) > Len(ca_ancestor)

\* The number of leading segments two segment sequences share.
SharedSegments(s1, s2) ==
    CHOOSE k \in 0..Min2(Len(s1), Len(s2)) :
        /\ \A i \in 1..k : s1[i] = s2[i]
        /\ k = Min2(Len(s1), Len(s2)) \/ s1[k + 1] # s2[k + 1]

\* The segments of a path, read off the path's characters: segment i lies
\* between the (i-1)-th and the i-th separator.
SepPositions(path) == {i \in 1..Len(path) : path[i] = sep}

\* C9: for two paths that share a leading directory (their first segments
\* are equal), paths_common_ancestor returns the shared leading segments
\* joined by the separator: a prefix of both paths that ends where a
\* segment ends in both, followed in each path by a separator or the end,
\* and the two paths differ in the next segment; '.' is a segment like any
\* other.
C9_SharedLeadingDirectory ==
    (pa_pc = "done" /\ split(pa_args[1])[1] = split(pa_args[2])[1]) =>
        LET p1 == pa_args[1]
            p2 == pa_args[2]
            s1 == split(p1)
            s2 == split(p2)
            k == SharedSegments(s1, s2)
            n == Len(pa_result)
            EndsSegment(p) == n = Len(p) \/ p[n + 1] = sep
            NextSegment(p) ==
                LET rest == SubSeq(p, n + 2, Len(p))
                    stops == SepPositions(rest)
                IN  IF n >= Len(p) THEN <<"end">>
                    ELSE IF stops = {} THEN rest
                    ELSE SubSeq(rest, 1,
                                (CHOOSE i \in stops : \A j \in stops : i <= j) - 1)
        IN  /\ k >= 1
            /\ pa_result = join(SubSeq(s1, 1, k))
            /\ IsPrefix(pa_result, p1) /\ IsPrefix(pa_result, p2)
            /\ EndsSegment(p1) /\ EndsSegment(p2)
            /\ Cardinality(SepPositions(pa_result)) = k - 1
            /\ (n < Len(p1) /\ n < Len(p2)) => NextSegment(p1) # NextSegment(p2)

\* Two paths that share a directory and then differ inside a segment that
\* starts with the same character, one of them holding a '.' segment.
C9_Witness ==
    /\ pa_pc = "done"
    /\ pa_args = <<<<"a", "/", "a", ".">>, <<"a", "/", "a">>>>
    /\ pa_result = <<"a">>

-----------------------------------------------------------------------------
(* Claims about required.                                                  *)

Registered(name) == name \in DOMAIN REQUIREMENTS_TO_CALLABLE

Available(name) == REQUIREMENTS_TO_CALLABLE[name] \in rq_installed

RqOver == rq_pc \in {"returned", "raised"}

CallsOfFunction == SelectSeq(rq_log, LAMBDA e : e.kind = "call")

ProbesCalled == SelectSeq(rq_log, LAMBDA e : e.kind = "probe")

AllRegistered == \A k \in 1..Len(rq_requirements) : Registered(rq_requirements[k])

\* C2: with every name registered, a call of the wrapped function invokes
\* the function exactly once with the original arguments and returns its
\* result unchanged when every probe reports available; it raises
\* ImportError and never invokes the function when some probe reports
\* unavailable.
C2_GateOpensOnlyWhenAllAvailable ==
    /\ (~RqOver) => (CallsOfFunction = <<>> /\ rq_result = "nothing")
    /\ (RqOver /\ AllRegistered) =>
        IF \A k \in 1..Len(rq_requirements) : Available(rq_requirements[k])
        THEN /\ rq_pc = "returned"
             /\ CallsOfFunction = <<CallEvent(rq_args)>>
             /\ rq_result = [result_of |-> rq_args]
             /\ rq_error = NoError
        ELSE /\ rq_pc = "raised"
             /\ rq_error.type = "ImportError"
             /\ CallsOfFunction = <<>>
             /\ rq_result = "nothing"

\* A gated call over two registered names that returned, and so did not
\* fail on either.
C2_Witness ==
    /\ rq_pc = "returned"
    /\ Len(rq_requirements) = 2
    /\ rq_requirements[1] # rq_requirements[2]
    /\ rq_installed # Modules
    /\ rq_result = [result_of |-> 2]

\* C3: the probes are called with raise_exception=True in the order of the
\* requirements, each before the function runs; checking stops at the first
\* failing probe, whose error is the one raised.
C3_ProbesInOrderStopAtFirstFailure ==
    LET n == Len(ProbesCalled)
    IN  /\ n <= Len(rq_requirements)
        /\ \A k \in 1..n : ProbesCalled[k] = ProbeEvent(rq_requirements[k], TRUE)
        /\ \A k \in 1..Len(rq_log) :
               rq_log[k].kind = "call" => (k = Len(rq_log) /\ k = n + 1)
        /\ \A k \in 1..(n - 1) : Available(rq_requirements[k])
        /\ rq_pc = "returned" =>
               /\ n = Len(rq_requirements)
               /\ \A k \in 1..n : Available(rq_requirements[k])
        /\ (rq_pc = "raised" /\ rq_error.type = "ImportError") =>
               /\ n >= 1
               /\ ~Available(rq_requirements[n])
               /\ rq_error.about = REQUIREMENTS_TO_CALLABLE[rq_requirements[n]]
        /\ (RqOver /\ n >= 1 /\ ~Available(rq_requirements[n])) =>
               (rq_pc = "raised" /\ rq_error.type = "ImportError")

\* The first of two probes failed: the second one was never called.
C3_Witness ==
    /\ rq_pc = "raised"
    /\ Len(rq_requirements) = 2
    /\ Registered(rq_requirements[2])
    /\ rq_error.type = "ImportError"
    /\ Len(rq_log) = 1
    /\ REQUIREMENTS_TO_CALLABLE[rq_requirements[2]] \notin rq_installed

HasUnknown == \E k \in 1..Len(rq_requirements) : ~Registered(rq_requirements[k])

FirstUnknown ==
    CHOOSE k \in 1..Len(rq_requirements) :
        /\ ~Registered(rq_requirements[k])
        /\ \A j \in 1..(k - 1) : Registered(rq_requirements[j])

\* C4 as stated: when some name is absent from REQUIREMENTS_TO_CALLABLE the
\* gated call fails with a lookup error and the function is not invoked,
\* whatever the position of the unknown name and the availability of the
\* other capabilities.
C4_UnknownNameRaisesLookupError ==
    (RqOver /\ HasUnknown) =>
        /\ rq_pc = "raised"
        /\ rq_error.type = "KeyError"
        /\ CallsOfFunction = <<>>

\* C4, amended: when some name is absent from REQUIREMENTS_TO_CALLABLE the
\* gated call fails and the function is not invoked; the error is the
\* KeyError of the first unknown name when every name before it is
\* available, and otherwise the ImportError of the first unavailable
\* capability named before it.
C4_UnknownNameFailsTheCall ==
    (RqOver /\ HasUnknown) =>
        /\ rq_pc = "raised"
        /\ CallsOfFunction = <<>>
        /\ rq_result = "nothing"
        /\ IF \A j \in 1..(FirstUnknown - 1) : Available(rq_requirements[j])
           THEN rq_error = [type |-> "KeyError",
                            about |-> rq_requirements[FirstUnknown]]
           ELSE /\ rq_error.type = "ImportError"
                /\ \E j \in 1..(FirstUnknown - 1) :
                       /\ ~Available(rq_requirements[j])
                       /\ \A i \in 1..(j - 1) : Available(rq_requirements[i])
                       /\ rq_error.about = REQUIREMENTS_TO_CALLABLE[rq_requirements[j]]

\* An unknown name in second position, after an available capability: the
\* call raised the KeyError of the unknown name.
C4_Witness ==
    /\ rq_pc = "raised"
    /\ Len(rq_requirements) = 2
    /\ Registered(rq_requirements[1])
    /\ ~Registered(rq_requirements[2])
    /\ Len(rq_log) = 1
    /\ rq_error.type = "KeyError"

-----------------------------------------------------------------------------
(* Claims about vivification and vivified_to_dict.                         *)

\* The key paths of a nested mapping.
RECURSIVE KeyPaths(_)
KeyPaths(d) ==
    IF d.kind = "int" THEN {}
    ELSE UNION {{<<k>>} \cup {<<k>> \o p : p \in KeyPaths(d.items[k])} :
                k \in DOMAIN d.items}

\* The value at a key path of a nested mapping.
RECURSIVE At(_, _)
At(d, path) == IF Len(path) = 0 THEN d ELSE At(d.items[path[1]], Tail(path))

\* A plain nested mapping holds no defaultdict at any depth.
RECURSIVE IsPlain(_)
IsPlain(d) ==
    \/ d.kind = "int"
    \/ d.kind = "dict" /\ \A k \in DOMAIN d.items : IsPlain(d.items[k])

MyAttribute == <<"my", "attribute">>

AfterSingleAssignment ==
    vv_ops = 1 /\ vv_live = {[op |-> "assign", path |-> MyAttribute, value |-> 1]}

MyAttributeIsOne ==
    vv_dict = Dict([k \in {"my"} |-> Dict([j \in {"attribute"} |-> IntValue(1)])])

\* C5 as stated: after any reads and chained assignments
\* vivified_to_dict(node) is a plain nested mapping that holds only key
\* paths that were set by an assignment (each is a leading part of an
\* assigned path), so a key that was only read does not appear; after the
\* single assignment node['my']['attribute'] = 1 it is
\* {'my': {'attribute': 1}}.
C5_OnlyAssignedKeys ==
    vv_pc = "converted" =>
        /\ IsPlain(vv_dict)
        /\ \A p \in KeyPaths(vv_dict) : \E q \in vv_assigned : IsPrefix(p, q)
        /\ AfterSingleAssignment => MyAttributeIsOne

\* C5, amended: after any reads and chained assignments
\* vivified_to_dict(node) is a plain nested mapping that holds only key
\* paths that were assigned or read; a key path that was read and not
\* assigned does appear (with an empty mapping under a key nothing was set
\* below), and an assigned path holds the value last assigned to it, until
\* an assignment at or above the path replaces it; after the single
\* assignment node['my']['attribute'] = 1 it is {'my': {'attribute': 1}}.
C5_AssignedAndReadKeys ==
    vv_pc = "converted" =>
        /\ IsPlain(vv_dict)
        /\ \A p \in KeyPaths(vv_dict) :
               \E q \in vv_assigned \cup vv_read : IsPrefix(p, q)
        /\ \A e \in vv_live :
               /\ e.path \in KeyPaths(vv_dict)
               /\ e.op = "assign" => At(vv_dict, e.path) = IntValue(e.value)
               /\ (e.op = "read" /\ \A f \in vv_live : ~IsPrefix(e.path, f.path) \/ f = e)
                      => At(vv_dict, e.path) = Dict(<<>>)
        /\ AfterSingleAssignment => MyAttributeIsOne

\* The node was converted after node['my']['attribute'] = 1 and a read of
\* another key: the key that was read is in the result.
C5_Witness ==
    /\ vv_pc = "converted"
    /\ vv_live = {[op |-> "assign", path |-> MyAttribute, value |-> 1],
                  [op |-> "read", path |-> <<"attribute">>, value |-> 0]}
    /\ vv_assigned = {MyAttribute}
    /\ DOMAIN vv_dict.items = {"my", "attribute"}

-----------------------------------------------------------------------------
(* Claims about message_box.                                               *)

ValidWidth == mb_width > 2 * mb_padding + 2

\* The characters of a str that are not whitespace, in order.
NonWhitespace(text) == SelectSeq(text, LAMBDA c : c \notin Whitespace)

\* An interior row without text: the border character, spaces, the border
\* character.
IsBlankRow(row) ==
    /\ Len(row) = mb_width
    /\ row[1] = "*" /\ row[Len(row)] = "*"
    /\ \A i \in 2..(Len(row) - 1) : row[i] = " "

IsBorder(row) == Len(row) = mb_width /\ \A i \in 1..Len(row) : row[i] = "="

\* What an interior row holds between its two paddings.
Content(row) == SubSeq(row, 2 + mb_padding, Len(row) - mb_padding - 1)

\* The text rows of a finished box: all rows but the first two and the
\* last two.
TextRows == SubSeq(mb_sink, 3, Len(mb_sink) - 2)

\* The number of lines the message wraps to, over all its segments.
RECURSIVE WrappedLines(_, _)
WrappedLines(segments, width) ==
    IF Len(segments) = 0 THEN 0
    ELSE Len(wrap(Head(segments), width)) + WrappedLines(Tail(segments), width)

BoxInOrder(rows) ==
    /\ mb_outcome = "True"
    /\ Len(mb_sink) = 4 + rows
    /\ IsBorder(mb_sink[1])
    /\ IsBlankRow(mb_sink[2])
    /\ IsBlankRow(mb_sink[Len(mb_sink) - 1])
    /\ mb_sink[Len(mb_sink)] = mb_sink[1]
    /\ NonWhitespace(Concat([i \in 1..Len(TextRows) |-> Content(TextRows[i])]))
           = NonWhitespace(mb_message)

C7_EmptyMessageFourRows ==
    (mb_pc = "done" /\ ValidWidth /\ mb_message = <<>>) =>
        Len(mb_sink) - 2 = 4

\* C7, amended: an empty message gives a box with exactly 3 interior rows
\* (the blank row, the row of the single space put in place of the empty
\* list of wrapped lines, the blank row), all three without text, for every
\* width and padding with width > 2*padding + 2.
C7_EmptyMessageThreeRows ==
    (mb_pc = "done" /\ ValidWidth /\ mb_message = <<>>) =>
        /\ Len(mb_sink) - 2 = 3
        /\ mb_rows = 1
        /\ \A i \in 2..4 : IsBlankRow(mb_sink[i])
        /\ IsBorder(mb_sink[1]) /\ IsBorder(mb_sink[5])

\* A finished box of the empty message, with padding.
C7_Witness ==
    /\ mb_pc = "done"
    /\ mb_message = <<>>
    /\ mb_padding = 1
    /\ ValidWidth
    /\ mb_outcome = "True"

\* word stands in the message between whitespace or the ends, once the
\* tabs of the message are expanded.
IsWordOf(word, message) ==
    \E i \in 1..Len(message) :
        /\ i + Len(word) - 1 <= Len(message)
        /\ SubSeq(message, i, i + Len(word) - 1) = word
        /\ i = 1 \/ message[i - 1] \in Whitespace
        /\ i + Len(word) - 1 = Len(message) \/ message[i + Len(word)] \in Whitespace

\* The maximal runs of characters other than whitespace in text are words
\* of the message.
WordsUnbroken(text, message) ==
    \A i, j \in 1..Len(text) :
        ( /\ i <= j
          /\ \A k \in i..j : text[k] \notin Whitespace
          /\ i = 1 \/ text[i - 1] \in Whitespace
          /\ j = Len(text) \/ text[j + 1] \in Whitespace )
            => IsWordOf(SubSeq(text, i, j), message)

\* An interior row starts with the border character and padding spaces and
\* ends with padding spaces and the border character.
IsPadded(row) ==
    /\ Len(row) >= 2 * mb_padding + 2
    /\ row[1] = "*" /\ row[Len(row)] = "*"
    /\ \A i \in 1..mb_padding : row[1 + i] = " " /\ row[Len(row) - i] = " "

InteriorRows == {i \in 2..Len(mb_sink) : ~(mb_pc = "done" /\ i = Len(mb_sink))}

-----------------------------------------------------------------------------
(* Claims about multi_replace.                                             *)

\* The left fold of substitution over pairs, from pair i on.
RECURSIVE FoldSub(_, _, _)
FoldSub(name, pairs, i) ==
    IF i > Len(pairs) THEN name
    ELSE FoldSub(re_sub(pairs[i].pattern, pairs[i].substitution, name), pairs, i + 1)

Reversed(pairs) == [i \in 1..Len(pairs) |-> pairs[Len(pairs) + 1 - i]]

\* C8: multi_replace is the left fold of global substitution over the
\* pairs of patterns in insertion order: step i substitutes the matches of
\* pattern i in the output of step i-1, starting from the argument.
C8_LeftFoldInInsertionOrder ==
    mr_pc # "idle" =>
        /\ Len(mr_trace) = mr_i
        /\ mr_name = mr_trace[mr_i]
        /\ \A i \in 1..(mr_i - 1) :
               mr_trace[i + 1] = re_sub(mr_patterns[i].pattern,
                                        mr_patterns[i].substitution, mr_trace[i])
        /\ mr_pc = "done" =>
               /\ mr_i = Len(mr_patterns) + 1
               /\ mr_name = FoldSub(mr_trace[1], mr_patterns, 1)

\* A finished call in which the second pattern matched text the first
\* substitution had introduced, and whose result differs from that of the
\* same pairs in the other order and from substituting each pattern in the
\* argument alone.
C8_Witness ==
    /\ mr_pc = "done"
    /\ mr_trace = <<<<"a">>, <<"b">>, <<"a", "b">>>>
    /\ mr_patterns[1].pattern = <<"a">>
    /\ mr_patterns[2].pattern = <<"b">>
    /\ MatchEnd(mr_patterns[2].pattern, 1, mr_trace[1], 1) = -1
    /\ mr_name # FoldSub(mr_trace[1], Reversed(mr_patterns), 1)
    /\ mr_name # re_sub(mr_patterns[1].pattern, mr_patterns[1].substitution,
                        mr_trace[1])

=============================================================================
